---- MODULE Spec2Model ----
(***************************************************************************)
(* A model of the csub scanner: the character cursor (CharBumper), the     *)
(* scanning state machine (CSubScanner), the position model they use       *)
(* (SourceFile) and the diagnostics collection (DiagBag).                  *)
(*                                                                         *)
(* A character is a string: an ASCII character is the one-character string *)
(* of itself, a character outside ASCII is named by its code point         *)
(* ("U+00E9").  A text is a sequence of characters; offsets are BYTE       *)
(* offsets into the UTF-8 encoding of the text, as in the source.          *)
(***************************************************************************)
EXTENDS Integers, Sequences, FiniteSets, TLC

VARIABLES text, char_stream, current_peek_pos, call, result,
          start_pos_of_lines, diags, given, pc, skips

vars == <<text, char_stream, current_peek_pos, call, result,
          start_pos_of_lines, diags, given, pc, skips>>

\* The SourceFile: its text and its table of line starts.
file == <<text, start_pos_of_lines>>

\* The DiagBag, and the bags handed to it so far, call by call.
bag == <<diags, given>>

\* Where a scan_next_word in progress stands, and the skips it has made.
stepper == <<pc, skips>>

----------------------------------------------------------------------------
(* Characters *)

Lower == {"a", "b", "c", "d", "e", "f", "g", "h", "i", "j", "k", "l", "m",
          "n", "o", "p", "q", "r", "s", "t", "u", "v", "w", "x", "y", "z"}

Upper == {"A", "B", "C", "D", "E", "F", "G", "H", "I", "J", "K", "L", "M",
          "N", "O", "P", "Q", "R", "S", "T", "U", "V", "W", "X", "Y", "Z"}

Letters == Lower \cup Upper

Digits == {"0", "1", "2", "3", "4", "5", "6", "7", "8", "9"}

LetterOrDigit == Letters \cup Digits

\* The whitespace arm without the tab.
Whitespace_no_tab == {" ", "\n"}

Whitespace == {" ", "\n", "\t"}

Symbols == {"+", "-", "*", "/", "<", ">", "=", "!", ";", ",",
            "(", ")", "[", "]", "{", "}"}

\* ASCII characters the scanner has no arm for.
OtherAscii == {"#", "_", "@", "\r"}

Ascii == Letters \cup Digits \cup Whitespace \cup Symbols \cup OtherAscii

\* Characters outside ASCII, of 2, 3 and 4 bytes in UTF-8.
NonAscii == {"U+00E9", "U+20AC", "U+1D11E"}

AllChars == Ascii \cup NonAscii

\* Option<char>::None
None == "None"

code_point(c) ==
    CASE c = "U+00E9" -> 233
      [] c = "U+20AC" -> 8364
      [] c = "U+1D11E" -> 119070
      [] OTHER -> 127

\* The length in UTF-16 code units, in place of the length in UTF-8 bytes.
len_utf8_as_utf16(c) == IF code_point(c) < 65536 THEN 1 ELSE 2

\* char::len_utf8
len_utf8(c) ==
    IF code_point(c) < 128 THEN 1
    ELSE IF code_point(c) < 2048 THEN 2
    ELSE IF code_point(c) < 65536 THEN 3
    ELSE 4

----------------------------------------------------------------------------
(* Position model *)

DUMMY == [start |-> 0, end |-> 0]

\* A span built with its two offsets exchanged.
Span_exchanged(s, e) == [start |-> e, end |-> s]

Span(s, e) == [start |-> s, end |-> e]

\* The bytes of the UTF-8 encoding of a character: an ASCII character is
\* its own byte, the bytes of any other character are all 0x80 or above.
utf8_bytes(c) == IF len_utf8(c) = 1 THEN <<c>> ELSE [i \in 1..len_utf8(c) |-> "0x80"]

RECURSIVE bytes(_)
\* String::bytes
bytes(s) == IF s = <<>> THEN <<>> ELSE utf8_bytes(Head(s)) \o bytes(Tail(s))

RECURSIVE push_line_starts(_, _)
\* The loop of SourceFile::new from the byte of index j - 1 on.
push_line_starts(b, j) ==
    IF j > Len(b) THEN <<>>
    ELSE (IF b[j] = "\n" THEN <<j>> ELSE <<>>) \o push_line_starts(b, j + 1)

\* SourceFile::new: the table start_pos_of_lines.
SourceFile_new(source_content) ==
    LET b == bytes(source_content)
    IN  <<0>> \o push_line_starts(b, 1) \o <<Len(b)>>

Some(v) == [some |-> TRUE, value |-> v]

NoIndex == [some |-> FALSE, value |-> 0]

Loc(line, col) == [line |-> line, col |-> col]

NoLoc == [some |-> FALSE, value |-> Loc(0, 0)]

\* lookup_line_index returning the index of the entry found, not of the
\* one before it.
lookup_line_index_no_predecessor(lines, pos) ==
    LET found == {k \in 1..Len(lines) : pos < lines[k]}
    IN  IF found = {} THEN NoIndex
        ELSE Some((CHOOSE k \in found : \A m \in found : k <= m) - 1)

\* The entry of 0-based index i is lines[i + 1]; the first entry is 0, so
\* the entry found never has index 0.
lookup_line_index(lines, pos) ==
    LET found == {k \in 1..Len(lines) : pos < lines[k]}
    IN  IF found = {} THEN NoIndex
        ELSE Some((CHOOSE k \in found : \A m \in found : k <= m) - 2)

lookup_source_location(lines, pos) ==
    LET line_index == lookup_line_index(lines, pos)
    IN  IF line_index.some
        THEN Some(Loc(line_index.value + 1, pos - lines[line_index.value + 1]))
        ELSE NoLoc

----------------------------------------------------------------------------
(* Diagnostics *)

UnknownCharacter(pos) == [kind |-> "UnknownCharacter", pos |-> pos]

DiagBag_new == <<>>

push(ds, diag) == Append(ds, diag)

\* extend putting the other bag's diagnostics first.
extend_in_front(ds, diag_bag) == diag_bag \o ds

extend(ds, diag_bag) == ds \o diag_bag

----------------------------------------------------------------------------
(* CharBumper: a cursor is the remaining stream and the byte offset *)

Cursor(stream, pos) == [char_stream |-> stream, current_peek_pos |-> pos]

new(chars) == Cursor(chars, 0)

peek(cs) == IF cs.char_stream = <<>> THEN None ELSE Head(cs.char_stream)

peek_is(cs, ch) == peek(cs) = ch

\* bump counting characters, not bytes.
bump_one_per_char(cs) ==
    IF cs.char_stream = <<>>
    THEN [ret |-> None, cur |-> cs]
    ELSE [ret |-> Head(cs.char_stream),
          cur |-> Cursor(Tail(cs.char_stream), cs.current_peek_pos + 1)]

\* bump advancing the offset even when the stream is exhausted.
bump_past_end(cs) ==
    IF cs.char_stream = <<>>
    THEN [ret |-> None, cur |-> Cursor(<<>>, cs.current_peek_pos + 1)]
    ELSE [ret |-> Head(cs.char_stream),
          cur |-> Cursor(Tail(cs.char_stream),
                         cs.current_peek_pos + len_utf8(Head(cs.char_stream)))]

bump(cs) ==
    IF cs.char_stream = <<>>
    THEN [ret |-> None, cur |-> cs]
    ELSE [ret |-> Head(cs.char_stream),
          cur |-> Cursor(Tail(cs.char_stream),
                         cs.current_peek_pos + len_utf8(Head(cs.char_stream)))]

\* bump_if that bumps whatever the next character is.
bump_if_unchecked(cs, ch) ==
    [ret |-> peek_is(cs, ch), cur |-> bump(cs).cur]

bump_if(cs, ch) ==
    IF peek_is(cs, ch)
    THEN [ret |-> TRUE, cur |-> bump(cs).cur]
    ELSE [ret |-> FALSE, cur |-> cs]

----------------------------------------------------------------------------
(* CSubScanner *)

RECURSIVE skip_block_comment_any_star(_)
\* skip_block_comment without the lookahead for `/`: any `*` closes.
skip_block_comment_any_star(cs) ==
    LET b == bump(cs) IN
    IF b.ret = "*"
    THEN [panic |-> FALSE, cur |-> bump(b.cur).cur]
    ELSE IF b.ret = None
    THEN [panic |-> TRUE, cur |-> b.cur]
    ELSE skip_block_comment_any_star(b.cur)

RECURSIVE skip_block_comment(_)
\* The loop of skip_block_comment; todo!() at end of stream is a panic.
skip_block_comment(cs) ==
    LET b == bump(cs) IN
    IF b.ret = "*" /\ peek_is(b.cur, "/")
    THEN [panic |-> FALSE, cur |-> bump(b.cur).cur]
    ELSE IF b.ret = None
    THEN [panic |-> TRUE, cur |-> b.cur]
    ELSE skip_block_comment(b.cur)

RECURSIVE bump_ident_letters_only(_)
\* bump_ident that stops at a digit.
bump_ident_letters_only(cs) ==
    IF peek(cs) \in Letters
    THEN bump_ident_letters_only(bump(cs).cur)
    ELSE cs

RECURSIVE bump_ident(_)
bump_ident(cs) ==
    IF peek(cs) \in LetterOrDigit THEN bump_ident(bump(cs).cur) ELSE cs

FoundCategory(category, cur) ==
    [state |-> "FoundCategory", category |-> category, cur |-> cur]

Skipped(cur) == [state |-> "Skipped", category |-> "-", cur |-> cur]

ReachedEndOfInput(cur) ==
    [state |-> "ReachedEndOfInput", category |-> "-", cur |-> cur]

\* todo!(): the thread panics, no ScanResult is produced.
Panicked(cur) == [state |-> "Panic", category |-> "-", cur |-> cur]

\* The arm pair without its guard: the one-character arm always wins.
WithEqual_no_lookahead(cur, two, one) == FoundCategory(one, cur)

\* An arm pair `Some(c) if self.bump_if('=') => two`, `Some(c) => one`.
WithEqual(cur, two, one) ==
    LET e == bump_if(cur, "=") IN
    IF e.ret THEN FoundCategory(two, e.cur) ELSE FoundCategory(one, e.cur)

analyse_category_and_bump_chars(cs) ==
    LET b == bump(cs)
        c == b.ret
    IN  CASE c = "+" -> FoundCategory("Plus", b.cur)
          [] c = "-" -> FoundCategory("Minus", b.cur)
          [] c = "*" -> FoundCategory("Star", b.cur)
          [] c = "/" ->
                LET s == bump_if(b.cur, "*") IN
                IF s.ret
                THEN LET k == skip_block_comment(s.cur) IN
                     IF k.panic THEN Panicked(k.cur) ELSE Skipped(k.cur)
                ELSE FoundCategory("Slash", s.cur)
          [] c = "<" -> WithEqual(b.cur, "LessEqual", "Less")
          [] c = ">" -> WithEqual(b.cur, "GreaterEqual", "Greater")
          [] c = "=" -> WithEqual(b.cur, "EqualEqual", "Equal")
          [] c = "!" ->
                LET e == bump_if(b.cur, "=") IN
                IF e.ret THEN FoundCategory("ExclamaEqual", e.cur)
                ELSE Panicked(e.cur)
          [] c = ";" -> FoundCategory("Semicolon", b.cur)
          [] c = "," -> FoundCategory("Comma", b.cur)
          [] c = "(" -> FoundCategory("OpenParen", b.cur)
          [] c = ")" -> FoundCategory("CloseParen", b.cur)
          [] c = "[" -> FoundCategory("OpenCurly", b.cur)
          [] c = "]" -> FoundCategory("CloseCurly", b.cur)
          [] c = "{" -> FoundCategory("OpenBracket", b.cur)
          [] c = "}" -> FoundCategory("CloseBracket", b.cur)
          [] c \in Letters -> FoundCategory("Ident", bump_ident(b.cur))
          [] c \in Whitespace -> Skipped(b.cur)
          [] c = None -> ReachedEndOfInput(b.cur)
          [] OTHER -> Panicked(b.cur)

\* What a call hands back: a Word, or nothing when the call panicked.
WordResult(category, lexeme) ==
    [kind |-> "Word", category |-> category, lexeme |-> lexeme,
     diag |-> "-", pos |-> 0, ret |-> "-"]

PanicResult ==
    [kind |-> "Panic", category |-> "-", lexeme |-> DUMMY,
     diag |-> "-", pos |-> 0, ret |-> "-"]

end_of_input == WordResult("Eof", DUMMY)

RECURSIVE scan_from(_, _)
\* scan_next_word looping in place: lexeme_start is read once, before the
\* skipped text, and not again after a skip.
scan_from(cs, lexeme_start) ==
    LET scan_state == analyse_category_and_bump_chars(cs)
    IN  CASE scan_state.state = "FoundCategory" ->
                [res |-> WordResult(scan_state.category,
                                    Span(lexeme_start,
                                         scan_state.cur.current_peek_pos)),
                 cur |-> scan_state.cur]
          [] scan_state.state = "Skipped" ->
                scan_from(scan_state.cur, lexeme_start)
          [] scan_state.state = "ReachedEndOfInput" ->
                [res |-> end_of_input, cur |-> scan_state.cur]
          [] OTHER -> [res |-> PanicResult, cur |-> scan_state.cur]

scan_next_word_stale_start(cs) == scan_from(cs, cs.current_peek_pos)

RECURSIVE scan_next_word(_)
scan_next_word(cs) ==
    LET lexeme_start == cs.current_peek_pos
        scan_state == analyse_category_and_bump_chars(cs)
    IN  CASE scan_state.state = "FoundCategory" ->
                [res |-> WordResult(scan_state.category,
                                    Span(lexeme_start,
                                         scan_state.cur.current_peek_pos)),
                 cur |-> scan_state.cur]
          [] scan_state.state = "Skipped" -> scan_next_word(scan_state.cur)
          [] scan_state.state = "ReachedEndOfInput" ->
                [res |-> end_of_input, cur |-> scan_state.cur]
          [] OTHER -> [res |-> PanicResult, cur |-> scan_state.cur]

----------------------------------------------------------------------------
(* Inputs *)

MaxLen == 3
MaxBody == 2
MaxTail == 1

SeqsUpTo(S, n) == UNION {[1..k -> S] : k \in 0..n}

\* One character of every class the scanner tells apart.
Alphabet == {"*", "/", "<", "=", "a", "1", " ", "#", "U+00E9"}

Short == SeqsUpTo(Alphabet, MaxLen)

\* A first character with lookahead, followed by any character.
Heads == {"<", ">", "=", "!", "/", "a", "1", " "}

Pairs == {<<h>> : h \in AllChars} \cup {<<h, c>> : h \in Heads, c \in AllChars}

\* Block comments: the body only matters through `*`, `/` and the rest.
CommentAlphabet == {"*", "/", "+", "U+20AC"}

TailAlphabet == {"=", "*", "/", " ", "a"}

Commented ==
    {<<"/", "*">> \o b \o <<"*", "/">> \o t :
        b \in SeqsUpTo(CommentAlphabet, MaxBody),
        t \in SeqsUpTo(TailAlphabet, MaxTail)}

Runs ==
    {<<"e", "l", "s", "e">>, <<"i", "f">>, <<"i", "n", "t">>,
     <<"r", "e", "t", "u", "r", "n">>, <<"v", "o", "i", "d">>,
     <<"w", "h", "i", "l", "e">>, <<"E", "l", "s", "e">>, <<"i", "f", "f">>,
     <<"h", "e", "l", "l", "o">>, <<"i">>, <<"I", "F">>,
     <<"H", "3", "l", "l", "0", "W", "0", "r", "1", "d">>,
     <<"1", "2", "3">>, <<"1", "2", "3", "a", "b", "c">>, <<"0">>}

Stops == {"+", " ", "\n", "\t", "(", "=", "_", "#", "U+00E9", "1", "a", "Z"}

Idents == Runs \cup {r \o <<s>> : r \in Runs, s \in Stops}

\* Inputs of the scanner's tests.
Corpus ==
    {<<"/", "*", "+", "/", "*", "-", "*", "/", "=", "*", "/">>,
     <<" ", "\n", "\t">>,
     <<"+", "-">>,
     <<"/", "*">>,
     <<"/", "*", " ", "+", "+", "!", "\n", " ", "*", "/">>,
     <<"\t", "\n", "<", "=", " ", ">", "=">>}

MaxPieces == 2

\* Whitespace characters and terminated comments, the pieces of a blank text.
Pieces ==
    {<<" ">>, <<"\n">>, <<"\t">>,
     <<"/", "*", "*", "/">>,
     <<"/", "*", "/", "*", "*", "/">>,
     <<"/", "*", " ", "*", "*", "/">>}

RECURSIVE Flatten(_)
Flatten(ss) == IF ss = <<>> THEN <<>> ELSE Head(ss) \o Flatten(Tail(ss))

Blanks == {Flatten(ps) : ps \in SeqsUpTo(Pieces, MaxPieces)}

Texts == Short \cup Pairs \cup Commented \cup Idents \cup Corpus \cup Blanks

\* Arguments of bump_if: the two the scanner uses, and one it does not.
Expected == {"=", "*", "a"}

----------------------------------------------------------------------------
(* The scanner as a state machine: one action per operation *)

cursor == Cursor(char_stream, current_peek_pos)

Call(op, arg) == [op |-> op, arg |-> arg, entry |-> cursor]

ValueResult(ret) ==
    [kind |-> "Value", category |-> "-", lexeme |-> DUMMY,
     diag |-> "-", pos |-> 0, ret |-> ret]

Init ==
    /\ text \in Texts
    /\ char_stream = new(text).char_stream
    /\ current_peek_pos = new(text).current_peek_pos
    /\ call = [op |-> "with_chars", arg |-> None, entry |-> new(text)]
    /\ result = ValueResult("-")
    /\ start_pos_of_lines = SourceFile_new(text)
    /\ diags = DiagBag_new
    /\ given = <<>>
    /\ pc = "idle"
    /\ skips = 0

Alive == result.kind # "Panic"

\* No scan_next_word is in progress.
Idle == Alive /\ pc = "idle"

\* peek written with next(): the character is consumed.
Peek_consuming ==
    /\ Idle
    /\ LET b == bump(cursor) IN
        /\ char_stream' = b.cur.char_stream
        /\ current_peek_pos' = b.cur.current_peek_pos
        /\ result' = ValueResult(b.ret)
    /\ call' = Call("peek", None)
    /\ UNCHANGED <<file, bag, stepper>>

Peek ==
    /\ Idle
    /\ call' = Call("peek", None)
    /\ result' = ValueResult(peek(cursor))
    /\ UNCHANGED <<file, bag, stepper, char_stream, current_peek_pos>>

Bump ==
    /\ Idle
    /\ LET b == bump(cursor) IN
        /\ char_stream' = b.cur.char_stream
        /\ current_peek_pos' = b.cur.current_peek_pos
        /\ result' = ValueResult(b.ret)
    /\ call' = Call("bump", None)
    /\ UNCHANGED <<file, bag, stepper>>

BumpIf ==
    /\ Idle
    /\ \E ch \in Expected :
        LET b == bump_if(cursor, ch) IN
        /\ char_stream' = b.cur.char_stream
        /\ current_peek_pos' = b.cur.current_peek_pos
        /\ result' = ValueResult(b.ret)
        /\ call' = Call("bump_if", ch)
    /\ UNCHANGED <<file, bag, stepper>>

ScanNextWord ==
    /\ Idle
    /\ LET r == scan_next_word(cursor) IN
        /\ char_stream' = r.cur.char_stream
        /\ current_peek_pos' = r.cur.current_peek_pos
        /\ result' = r.res
    /\ call' = Call("scan_next_word", None)
    /\ UNCHANGED <<file, bag, stepper>>

Next == Peek \/ Bump \/ BumpIf \/ ScanNextWord

Spec == Init /\ [][Next]_vars

----------------------------------------------------------------------------
(* scan_next_word step by step: one step is one activation of the function, *)
(* which ends the call or calls itself after a skip                         *)

ScanCall ==
    /\ Idle
    /\ call' = Call("scan_next_word", None)
    /\ result' = ValueResult("-")
    /\ pc' = "scanning"
    /\ skips' = 0
    /\ UNCHANGED <<file, bag, char_stream, current_peek_pos>>

ScanStep ==
    /\ pc = "scanning"
    /\ LET lexeme_start == current_peek_pos
           scan_state == analyse_category_and_bump_chars(cursor)
       IN  /\ char_stream' = scan_state.cur.char_stream
           /\ current_peek_pos' = scan_state.cur.current_peek_pos
           /\ CASE scan_state.state = "FoundCategory" ->
                     /\ result' = WordResult(scan_state.category,
                                             Span(lexeme_start,
                                                  scan_state.cur.current_peek_pos))
                     /\ pc' = "idle"
                     /\ skips' = skips
                [] scan_state.state = "Skipped" ->
                     /\ result' = result
                     /\ pc' = "scanning"
                     /\ skips' = skips + 1
                [] scan_state.state = "ReachedEndOfInput" ->
                     /\ result' = end_of_input
                     /\ pc' = "idle"
                     /\ skips' = skips
                [] OTHER ->
                     /\ result' = PanicResult
                     /\ pc' = "idle"
                     /\ skips' = skips
    /\ UNCHANGED <<file, bag, call>>

NextSteps == ScanCall \/ ScanStep

SpecSteps == Init /\ [][NextSteps]_vars

----------------------------------------------------------------------------
(* The SourceFile as a state machine *)

MaxSource == 4
MaxPast == 2

LineAlphabet == {"a", "\n", "U+00E9"}

\* The text of the tests of source_map.rs.
ThreeLines ==
    <<"f", "i", "r", "s", "t", " ", "l", "i", "n", "e", ".", "\n",
      "s", "e", "c", "o", "n", "d", " ", "l", "i", "n", "e", ".", "\n",
      "t", "h", "i", "r", "d", " ", "l", "i", "n", "e", ".", "\n">>

SourceTexts == SeqsUpTo(LineAlphabet, MaxSource) \cup {ThreeLines}

\* Offsets looked up: every offset of the text, and some past its end.
Offsets == 0..(Len(bytes(text)) + MaxPast)

InitSourceFile ==
    /\ text \in SourceTexts
    /\ char_stream = new(text).char_stream
    /\ current_peek_pos = new(text).current_peek_pos
    /\ call = [op |-> "new", arg |-> None, entry |-> new(text)]
    /\ result = ValueResult("-")
    /\ start_pos_of_lines = SourceFile_new(text)
    /\ diags = DiagBag_new
    /\ given = <<>>
    /\ pc = "idle"
    /\ skips = 0

LookupLineIndex ==
    /\ \E pos \in Offsets :
        /\ call' = Call("lookup_line_index", pos)
        /\ result' = ValueResult(lookup_line_index(start_pos_of_lines, pos))
    /\ UNCHANGED <<file, bag, stepper, char_stream, current_peek_pos>>

LookupSourceLocation ==
    /\ \E pos \in Offsets :
        /\ call' = Call("lookup_source_location", pos)
        /\ result' = ValueResult(lookup_source_location(start_pos_of_lines, pos))
    /\ UNCHANGED <<file, bag, stepper, char_stream, current_peek_pos>>

NextSourceFile == LookupLineIndex \/ LookupSourceLocation

SpecSourceFile == InitSourceFile /\ [][NextSourceFile]_vars

----------------------------------------------------------------------------
(* The DiagBag as a state machine *)

MaxDiagPos == 3
MaxBag == 4
MaxExtend == 2
MaxCalls == 3

Diags == {UnknownCharacter(pos) : pos \in 0..MaxDiagPos}

\* The bags a bag is extended with.
Bags == SeqsUpTo(Diags, MaxExtend)

BagCall(op, arg) == [op |-> op, arg |-> arg, entry |-> diags]

InitDiagBag ==
    /\ text = <<>>
    /\ char_stream = new(text).char_stream
    /\ current_peek_pos = new(text).current_peek_pos
    /\ call = [op |-> "new", arg |-> None, entry |-> DiagBag_new]
    /\ result = ValueResult("-")
    /\ start_pos_of_lines = SourceFile_new(text)
    /\ diags = DiagBag_new
    /\ given = <<>>
    /\ pc = "idle"
    /\ skips = 0

Push ==
    /\ Len(given) < MaxCalls
    /\ \E diag \in Diags :
        /\ Len(diags) + 1 <= MaxBag
        /\ diags' = push(diags, diag)
        /\ given' = Append(given, <<diag>>)
        /\ call' = BagCall("push", diag)
    /\ UNCHANGED <<file, stepper, char_stream, current_peek_pos, result>>

Extend ==
    /\ Len(given) < MaxCalls
    /\ \E diag_bag \in Bags :
        /\ Len(diags) + Len(diag_bag) <= MaxBag
        /\ diags' = extend(diags, diag_bag)
        /\ given' = Append(given, diag_bag)
        /\ call' = BagCall("extend", diag_bag)
    /\ UNCHANGED <<file, stepper, char_stream, current_peek_pos, result>>

NextDiagBag == Push \/ Extend

SpecDiagBag == InitDiagBag /\ [][NextDiagBag]_vars

----------------------------------------------------------------------------
(* Vocabulary of the properties *)

\* The last operation was scan_next_word, called with stream s at offset p.
IsScan == call.op = "scan_next_word"

EntryStream == call.entry.char_stream

EntryPos == call.entry.current_peek_pos

\* The call returned a word that is not the end-of-input word.
IsWord == result.kind = "Word" /\ result.category # "Eof"

DiagResult(diag, pos) ==
    [kind |-> "Diag", category |-> "-", lexeme |-> DUMMY,
     diag |-> diag, pos |-> pos, ret |-> "-"]

RECURSIVE ByteLen(_)
\* The number of bytes of the UTF-8 encoding of a sequence of characters.
ByteLen(s) == IF s = <<>> THEN 0 ELSE len_utf8(Head(s)) + ByteLen(Tail(s))

\* The byte offset of the i-th character of the text.
OffsetOf(i) == ByteLen(SubSeq(text, 1, i - 1))

\* The length of the longest prefix of s made of characters of S.
Lead(s, S) ==
    CHOOSE k \in 0..Len(s) :
        /\ \A i \in 1..k : s[i] \in S
        /\ k = Len(s) \/ s[k + 1] \notin S

StartsWith(s, a, b) == Len(s) >= 2 /\ s[1] = a /\ s[2] = b

\* The cursor after the call: the stream left and the offset reached.
LeftAt(s, n, p) == char_stream = SubSeq(s, n + 1, Len(s)) /\ current_peek_pos = p

----------------------------------------------------------------------------
(* C1 *)

TwoCharCategory(c) ==
    CASE c = "<" -> "LessEqual"
      [] c = ">" -> "GreaterEqual"
      [] c = "=" -> "EqualEqual"
      [] c = "!" -> "ExclamaEqual"

OneCharCategory(c) ==
    CASE c = "<" -> "Less"
      [] c = ">" -> "Greater"
      [] c = "=" -> "Equal"

\* C1: a scan that starts at `<`, `>`, `=` or `!` followed by `=` returns one
\* word of the two-character category spanning both characters, and both are
\* consumed; a scan that starts at `<`, `>` or `=` followed by anything else
\* (or by nothing) returns the one-character word and leaves the next
\* character in the stream.
C1_MaximalMunch ==
    LET s == EntryStream
        p == EntryPos
    IN  (IsScan /\ s # <<>> /\ s[1] \in {"<", ">", "=", "!"}) =>
            IF StartsWith(s, s[1], "=")
            THEN /\ result = WordResult(TwoCharCategory(s[1]), Span(p, p + 2))
                 /\ LeftAt(s, 2, p + 2)
            ELSE s[1] # "!" =>
                 /\ result = WordResult(OneCharCategory(s[1]), Span(p, p + 1))
                 /\ LeftAt(s, 1, p + 1)

C1_Witness ==
    /\ IsScan
    /\ StartsWith(EntryStream, "<", "=")
    /\ result.category = "LessEqual"
    /\ result.lexeme = Span(EntryPos, EntryPos + 2)

----------------------------------------------------------------------------
(* C2 *)

\* C2: every call of scan_next_word returns a value, a word (the
\* end-of-input word included) or a diagnostic, whatever the input; it
\* never panics.
C2_ScanAlwaysReturns == IsScan => result.kind \in {"Word", "Diag"}

----------------------------------------------------------------------------
(* C3 *)

\* s holds `*` `/` at j, j + 1, after the two characters of the opening.
ClosesAt(s, j) == j >= 3 /\ j + 1 <= Len(s) /\ s[j] = "*" /\ s[j + 1] = "/"

HasClose(s) == \E j \in 1..Len(s) : ClosesAt(s, j)

FirstClose(s) ==
    CHOOSE j \in 1..Len(s) :
        ClosesAt(s, j) /\ \A k \in 1..(j - 1) : ~ClosesAt(s, k)

NestedLooking ==
    <<"/", "*", "+", "/", "*", "-", "*", "/", "=", "*", "/">>

\* C3: a scan that starts at `/*` closed by a later `*/` produces no word
\* for the comment and returns what a scan started right after the FIRST
\* such `*/` returns, whatever `/*` the comment holds; in `/*+/*-*/=*/` the
\* scans give Equal, then Star, then Slash.
C3_CommentsDoNotNest ==
    LET s == EntryStream
        p == EntryPos
    IN  /\ (IsScan /\ StartsWith(s, "/", "*") /\ HasClose(s)) =>
              LET j == FirstClose(s)
                  q == p + ByteLen(SubSeq(s, 1, j + 1))
                  resumed ==
                      scan_next_word(Cursor(SubSeq(s, j + 2, Len(s)), q))
              IN  /\ result = resumed.res
                  /\ cursor = resumed.cur
                  /\ IsWord => result.lexeme.start >= q
                  /\ (j + 2 <= Len(s) /\ s[j + 2] = "*") =>
                        result = WordResult("Star", Span(q, q + 1))
        /\ (IsScan /\ text = NestedLooking) =>
              /\ p = 0 => result = WordResult("Equal", Span(8, 9))
              /\ p = 9 => result = WordResult("Star", Span(9, 10))
              /\ p = 10 => result = WordResult("Slash", Span(10, 11))

C3_Witness ==
    /\ IsScan
    /\ text = NestedLooking
    /\ EntryPos = 0
    /\ result.category = "Equal"
    /\ current_peek_pos = 9

----------------------------------------------------------------------------
(* C4 *)

\* C4: a scan that starts at `/*` with no `*/` after it returns the
\* diagnostic MissingCommentTerminator, and no word.
C4_UnterminatedCommentDiagnosed ==
    (IsScan /\ StartsWith(EntryStream, "/", "*") /\ ~HasClose(EntryStream)) =>
        result = DiagResult("MissingCommentTerminator", 0)

----------------------------------------------------------------------------
(* C5 *)

\* The characters of the text whose first byte lies in [start, end).
Covered(span) ==
    {i \in 1..Len(text) : span.start <= OffsetOf(i) /\ OffsetOf(i) < span.end}

\* C5: a returned word (other than end of input) starts at a character of
\* the text that is not whitespace, covers no whitespace character, and,
\* when the stream at the call is whitespace followed by the first
\* character of a word, starts exactly at that character.
C5_SpanExcludesWhitespace ==
    LET s == EntryStream
        p == EntryPos
        k == Lead(s, Whitespace)
    IN  (IsScan /\ IsWord) =>
            /\ \E i \in 1..Len(text) :
                  OffsetOf(i) = result.lexeme.start /\ text[i] \notin Whitespace
            /\ \A i \in Covered(result.lexeme) : text[i] \notin Whitespace
            /\ (k < Len(s) /\ ~StartsWith(SubSeq(s, k + 1, Len(s)), "/", "*")) =>
                  result.lexeme.start = p + k

C5_Witness ==
    /\ IsScan
    /\ IsWord
    /\ Lead(EntryStream, Whitespace) >= 2
    /\ result.lexeme.start = EntryPos + Lead(EntryStream, Whitespace)
    /\ result.lexeme.end > result.lexeme.start

----------------------------------------------------------------------------
(* C6 *)

KeywordOf(run) ==
    CASE run = <<"e", "l", "s", "e">> -> "Kw(Else)"
      [] run = <<"i", "f">> -> "Kw(If)"
      [] run = <<"i", "n", "t">> -> "Kw(Int)"
      [] run = <<"r", "e", "t", "u", "r", "n">> -> "Kw(Return)"
      [] run = <<"v", "o", "i", "d">> -> "Kw(Void)"
      [] run = <<"w", "h", "i", "l", "e">> -> "Kw(While)"
      [] OTHER -> "Ident"

\* C6: a scan that starts at a letter returns a word whose category is the
\* keyword category when the maximal letter/digit run is exactly `else`,
\* `if`, `int`, `return`, `void` or `while`, and Ident for every other run.
C6_KeywordsScanAsKw ==
    LET s == EntryStream IN
    (IsScan /\ s # <<>> /\ s[1] \in Letters) =>
        /\ result.kind = "Word"
        /\ result.category = KeywordOf(SubSeq(s, 1, Lead(s, LetterOrDigit)))

----------------------------------------------------------------------------
(* C7 *)

\* C7: a scan that starts at a letter returns one word whose span is exactly
\* the maximal run of letters and digits from that letter; the character
\* that ends the run stays in the stream.
C7_IdentCoversMaximalRun ==
    LET s == EntryStream
        p == EntryPos
        n == Lead(s, LetterOrDigit)
    IN  (IsScan /\ s # <<>> /\ s[1] \in Letters) =>
            /\ result.kind = "Word"
            /\ result.lexeme = Span(p, p + n)
            /\ LeftAt(s, n, p + n)

C7_Witness ==
    LET s == EntryStream
        n == Lead(s, LetterOrDigit)
    IN  /\ IsScan
        /\ s # <<>> /\ s[1] \in Letters
        /\ \E i \in 2..n : s[i] \in Digits
        /\ n < Len(s)
        /\ result.lexeme = Span(EntryPos, EntryPos + n)
        /\ char_stream # <<>> /\ Head(char_stream) = s[n + 1]

----------------------------------------------------------------------------
(* C8 *)

\* C8: a scan that starts at a digit whose maximal digit run is not followed
\* by a letter returns a Number word spanning exactly that run.
C8_DigitRunIsNumber ==
    LET s == EntryStream
        p == EntryPos
        n == Lead(s, Digits)
    IN  (IsScan /\ s # <<>> /\ s[1] \in Digits
           /\ (n = Len(s) \/ s[n + 1] \notin Letters)) =>
            /\ result = WordResult("Number", Span(p, p + n))
            /\ LeftAt(s, n, p + n)

----------------------------------------------------------------------------
(* C9 *)

\* C9: a scan that starts at a digit whose maximal digit run is followed by
\* a letter returns the diagnostic InvalidDigit at the offset right after
\* the run.
C9_InvalidDigitReported ==
    LET s == EntryStream
        p == EntryPos
        n == Lead(s, Digits)
    IN  (IsScan /\ s # <<>> /\ s[1] \in Digits
           /\ n < Len(s) /\ s[n + 1] \in Letters) =>
            result = DiagResult("InvalidDigit", p + n)

----------------------------------------------------------------------------
(* C10 *)

\* The characters the token table has a row for.
TableChars == Symbols \cup Letters \cup Digits \cup Whitespace

\* C10: a scan that starts at a character outside the token table returns
\* the diagnostic UnknownCharacter whose pos is the offset of that character.
C10_UnknownCharacterReported ==
    LET s == EntryStream
        p == EntryPos
    IN  (IsScan /\ s # <<>> /\ s[1] \notin TableChars) =>
            result = DiagResult("UnknownCharacter", p)

----------------------------------------------------------------------------
(* C11 *)

\* C11: a scan that starts at a `!` not followed by `=` (another character
\* or the end of input follows) returns a diagnostic, and no word.
C11_LoneExclamaDiagnosed ==
    LET s == EntryStream IN
    (IsScan /\ s # <<>> /\ s[1] = "!" /\ ~StartsWith(s, "!", "=")) =>
        result.kind = "Diag"

----------------------------------------------------------------------------
(* C12 *)

BlankChars == {" ", "\t", "\n"}

RECURSIVE BlankOnly(_)
\* s is made of whitespace characters and terminated block comments only.
BlankOnly(s) ==
    IF s = <<>> THEN TRUE
    ELSE IF s[1] \in BlankChars THEN BlankOnly(Tail(s))
    ELSE /\ StartsWith(s, "/", "*")
         /\ HasClose(s)
         /\ BlankOnly(SubSeq(s, FirstClose(s) + 2, Len(s)))

\* C12: a scan of a stream made only of whitespace and terminated block
\* comments, in any number and order (the empty stream included), returns
\* the end-of-input word: no diagnostic and no panic comes before it.
C12_BlankInputIsEndOfInput ==
    (IsScan /\ BlankOnly(EntryStream)) =>
        result = end_of_input /\ char_stream = <<>>

C12_Witness ==
    /\ IsScan
    /\ call.entry = new(text)
    /\ BlankOnly(text)
    /\ \E i \in 1..Len(text) : text[i] = "\t"
    /\ \E i \in 1..Len(text) : text[i] = "*"
    /\ result = end_of_input

----------------------------------------------------------------------------
(* C13 *)

\* The category the token table of the specification fixes for an input.
TableCategory(t) ==
    CASE t = <<"+">> -> "Plus"
      [] t = <<"-">> -> "Minus"
      [] t = <<"*">> -> "Star"
      [] t = <<"/">> -> "Slash"
      [] t = <<"<">> -> "Less"
      [] t = <<"<", "=">> -> "LessEqual"
      [] t = <<">">> -> "Greater"
      [] t = <<">", "=">> -> "GreaterEqual"
      [] t = <<"=">> -> "Equal"
      [] t = <<"=", "=">> -> "EqualEqual"
      [] t = <<"!", "=">> -> "ExclamaEqual"
      [] t = <<";">> -> "Semicolon"
      [] t = <<",">> -> "Comma"
      [] t = <<"(">> -> "OpenParen"
      [] t = <<")">> -> "CloseParen"
      [] t = <<"{">> -> "OpenCurly"
      [] t = <<"}">> -> "CloseCurly"
      [] t = <<"[">> -> "OpenBracket"
      [] t = <<"]">> -> "CloseBracket"
      [] OTHER -> "-"

\* C13: the first scan of a text that is one punctuation or operator input
\* returns the word of the table's category with span [0, n), n the number
\* of characters of the input (1 or 2).
C13_SymbolsMatchTable ==
    (IsScan /\ call.entry = new(text) /\ TableCategory(text) # "-") =>
        result = WordResult(TableCategory(text), Span(0, Len(text)))

----------------------------------------------------------------------------
(* C16 *)

\* The character of the text that starts at byte offset off, None if none.
CharAtOffset(off) ==
    IF \E i \in 1..Len(text) : OffsetOf(i) = off
    THEN text[CHOOSE i \in 1..Len(text) : OffsetOf(i) = off]
    ELSE None

\* C16: peek() returns the character of the text at the cursor's offset,
\* None at the end of the stream, and leaves the offset and the remaining
\* stream as they were; a peek() that follows a peek() returns the same
\* value and again changes nothing.
C16_PeekIsPure ==
    /\ [](call.op = "peek" =>
            /\ cursor = call.entry
            /\ result.ret = CharAtOffset(current_peek_pos))
    /\ [][(call.op = "peek" /\ call'.op = "peek") =>
            /\ result'.ret = result.ret
            /\ char_stream' = char_stream
            /\ current_peek_pos' = current_peek_pos]_vars

C16_Witness ==
    /\ call.op = "peek"
    /\ current_peek_pos > 0
    /\ result.ret \in AllChars
    /\ result.ret = Head(char_stream)
    /\ cursor = call.entry

----------------------------------------------------------------------------
(* C17 *)

\* The length of the UTF-8 encoding of a character, 1 to 4 bytes.
EncodedLength(c) ==
    CASE c = "U+00E9" -> 2
      [] c = "U+20AC" -> 3
      [] c = "U+1D11E" -> 4
      [] OTHER -> 1

RECURSIVE EncodedBytes(_)
EncodedBytes(s) ==
    IF s = <<>> THEN 0 ELSE EncodedLength(Head(s)) + EncodedBytes(Tail(s))

\* The characters of the text consumed so far.
Consumed == SubSeq(text, 1, Len(text) - Len(char_stream))

\* C17: bump() returns the next character and advances the offset by the
\* length of its UTF-8 encoding, or returns None at the end of the stream
\* and leaves the offset; whatever the operations so far, the stream is what
\* is left of the text and the offset is the number of bytes of the
\* characters consumed.
C17_BumpAdvancesByUtf8Length ==
    LET s == call.entry.char_stream
        p == call.entry.current_peek_pos
    IN  /\ call.op = "bump" =>
              IF s = <<>>
              THEN result.ret = None /\ cursor = call.entry
              ELSE /\ result.ret = s[1]
                   /\ char_stream = Tail(s)
                   /\ current_peek_pos = p + EncodedLength(s[1])
        /\ text = Consumed \o char_stream
        /\ current_peek_pos = EncodedBytes(Consumed)

C17_Witness ==
    /\ call.op = "bump"
    /\ result.ret = "U+20AC"
    /\ call.entry.current_peek_pos > 0
    /\ current_peek_pos = call.entry.current_peek_pos + 3

----------------------------------------------------------------------------
(* C18 *)

\* C18: bump_if(expected) returns true and consumes one character exactly
\* when the next character is expected; otherwise it returns false and the
\* cursor is as it was.
C18_BumpIfConsumesOnlyExpected ==
    LET s == call.entry.char_stream
        p == call.entry.current_peek_pos
        hit == s # <<>> /\ s[1] = call.arg
    IN  call.op = "bump_if" =>
            /\ result.ret = hit
            /\ IF hit
               THEN /\ char_stream = Tail(s)
                    /\ current_peek_pos = p + EncodedLength(s[1])
               ELSE cursor = call.entry

C18_Witness ==
    /\ call.op = "bump_if"
    /\ result.ret = TRUE
    /\ Len(char_stream) = Len(call.entry.char_stream) - 1
    /\ call.entry.char_stream[1] = call.arg

----------------------------------------------------------------------------
(* C19 *)

\* C19: a scan of an exhausted stream returns the end-of-input word, Eof
\* with span [0, 0) whatever the offset; the end-of-input word is only
\* returned with the stream exhausted; and once the stream is exhausted it
\* stays so, the offset no longer changes and every scan returns the
\* end-of-input word.
C19_EndOfInputIsTerminal ==
    /\ []((IsScan /\ EntryStream = <<>>) => result = end_of_input)
    /\ []((IsScan /\ result.kind = "Word" /\ result.category = "Eof") =>
            result.lexeme = DUMMY /\ char_stream = <<>>)
    /\ [][char_stream = <<>> =>
            /\ char_stream' = <<>>
            /\ current_peek_pos' = current_peek_pos
            /\ call'.op = "scan_next_word" => result' = end_of_input]_vars

C19_Witness ==
    /\ IsScan
    /\ EntryStream = <<>>
    /\ EntryPos > 1
    /\ EntryPos = EncodedBytes(text)
    /\ result = end_of_input
    /\ current_peek_pos = EntryPos

----------------------------------------------------------------------------
(* C14 *)

\* The number of `\n` bytes of the text before byte offset pos.
NewlinesBefore(pos) ==
    Cardinality({j \in 1..Len(bytes(text)) : j <= pos /\ bytes(text)[j] = "\n"})

\* The offset right after the last `\n` before pos, 0 when there is none.
LineStartBefore(pos) ==
    LET ends == {0} \cup {j \in 1..Len(bytes(text)) :
                            j <= pos /\ bytes(text)[j] = "\n"}
    IN  CHOOSE m \in ends : \A e \in ends : e <= m

\* C14: for an offset pos inside the text, lookup_source_location(pos) is a
\* Loc whose line is 1 + the number of `\n` bytes before pos and whose col,
\* added to the start of that line, gives pos back, and lookup_line_index
\* is that line's 0-based index; for pos at or past the end of the text
\* (pos 0 of the empty text included) both return not found.
C14_LocationRoundTrips ==
    LET pos == call.arg
        len == Len(bytes(text))
        loc == result.ret.value
    IN  /\ call.op = "lookup_source_location" =>
              IF pos < len
              THEN /\ result.ret.some
                   /\ loc.line = 1 + NewlinesBefore(pos)
                   /\ start_pos_of_lines[loc.line] + loc.col = pos
                   /\ start_pos_of_lines[loc.line] = LineStartBefore(pos)
                   /\ loc.col >= 0
              ELSE result.ret = NoLoc
        /\ call.op = "lookup_line_index" =>
              IF pos < len
              THEN result.ret = Some(NewlinesBefore(pos))
              ELSE result.ret = NoIndex

C14_Witness ==
    /\ call.op = "lookup_source_location"
    /\ result.ret.some
    /\ result.ret.value.line >= 2
    /\ result.ret.value.col >= 2
    /\ \E i \in 1..Len(text) : text[i] = "U+00E9"
    /\ start_pos_of_lines[result.ret.value.line] + result.ret.value.col = call.arg

----------------------------------------------------------------------------
(* C15 *)

\* C15: after any sequence of push and extend on a bag that starts empty,
\* the bag is the concatenation, in call order, of what the calls were
\* given; each call keeps what the bag held as a prefix, in the same order;
\* and extending [d1, d2] with [d3, d4] leaves [d1, d2, d3, d4].
C15_BagKeepsCallOrder ==
    LET d1 == UnknownCharacter(0)
        d2 == UnknownCharacter(1)
        d3 == UnknownCharacter(2)
        d4 == UnknownCharacter(3)
    IN  /\ diags = Flatten(given)
        /\ call.op \in {"push", "extend"} =>
              /\ Len(diags) >= Len(call.entry)
              /\ SubSeq(diags, 1, Len(call.entry)) = call.entry
        /\ call.op = "push" => diags = call.entry \o <<call.arg>>
        /\ (call.op = "extend" /\ call.entry = <<d1, d2>>
              /\ call.arg = <<d3, d4>>) => diags = <<d1, d2, d3, d4>>

C15_Witness ==
    /\ call.op = "extend"
    /\ call.entry = <<UnknownCharacter(0), UnknownCharacter(1)>>
    /\ call.arg = <<UnknownCharacter(2), UnknownCharacter(3)>>
    /\ Len(diags) = 4
    /\ given = <<<<UnknownCharacter(0)>>, <<UnknownCharacter(1)>>, call.arg>>

----------------------------------------------------------------------------
(* C20 *)

\* Every skip of the call in progress has consumed at least one character:
\* the skips are no more than the characters consumed since the call began.
SkipsConsume == skips <= Len(call.entry.char_stream) - Len(char_stream)

\* C20: a call of scan_next_word makes no more skip-and-retry steps than
\* the characters it has consumed, hence than the characters that remained
\* when it began, and it ends by returning a word, the end-of-input word or
\* a diagnostic, so that repeated calls are never cut short before the
\* end-of-input word or a diagnostic.
C20_ScanTerminates ==
    /\ SkipsConsume
    /\ (IsScan /\ pc = "idle") => result.kind \in {"Word", "Diag"}

----------------------------------------------------------------------------
(* C21 *)

\* The category named after a bracket character.
BracketCategory(c) ==
    CASE c = "(" -> "OpenParen"
      [] c = ")" -> "CloseParen"
      [] c = "{" -> "OpenCurly"
      [] c = "}" -> "CloseCurly"
      [] c = "[" -> "OpenBracket"
      [] c = "]" -> "CloseBracket"

\* C21: a scan that starts at a bracket character returns the one-character
\* word of the category named after it: OpenCurly and CloseCurly for `{`
\* and `}`, OpenBracket and CloseBracket for `[` and `]`, OpenParen and
\* CloseParen for `(` and `)`.
C21_BracketsNamedAfterCharacter ==
    LET s == EntryStream
        p == EntryPos
    IN  (IsScan /\ s # <<>> /\ s[1] \in {"(", ")", "{", "}", "[", "]"}) =>
            /\ result.kind = "Word"
            /\ result.category = BracketCategory(s[1])
            /\ result.lexeme.start = p /\ result.lexeme.end = p + 1

----------------------------------------------------------------------------
(* C22 *)

\* Nothing is skipped by a scan of stream s: it starts at a word.
NothingToSkip(s) ==
    s # <<>> /\ s[1] \notin BlankChars /\ ~StartsWith(s, "/", "*")

\* C22: every word returned other than end of input has a span with
\* start < end <= the byte length of the text, and when two calls of
\* scan_next_word in a row both return such a word, the second word starts
\* at or after the end of the first: exactly at it when nothing lies
\* between them to skip.
C22_WordsInSourceOrder ==
    /\ []((IsScan /\ IsWord) =>
            /\ result.lexeme.start < result.lexeme.end
            /\ result.lexeme.end <= EncodedBytes(text))
    /\ [][(IsScan /\ IsWord /\ call'.op = "scan_next_word"
             /\ result'.kind = "Word" /\ result'.category # "Eof") =>
            /\ result'.lexeme.start >= result.lexeme.end
            /\ NothingToSkip(char_stream) =>
                  result'.lexeme.start = result.lexeme.end]_vars

C22_Witness ==
    /\ text = <<"+", "-">>
    /\ IsScan
    /\ EntryPos = 1
    /\ result.category = "Minus"
    /\ result.lexeme.start = 1 /\ result.lexeme.end = 2

----------------------------------------------------------------------------
(* C23 *)

\* The byte offsets at which a character of the text starts, and its end.
Boundaries == {EncodedBytes(SubSeq(text, 1, k)) : k \in 0..Len(text)}

\* C23: whatever operations were called, the cursor's offset lies between 0
\* and the byte length of the text, on a character boundary of the text,
\* and no operation decreases it.
C23_OffsetStaysInText ==
    /\ [](/\ 0 <= current_peek_pos
          /\ current_peek_pos <= EncodedBytes(text)
          /\ current_peek_pos \in Boundaries)
    /\ [][current_peek_pos' >= current_peek_pos]_vars

C23_Witness ==
    /\ IsScan
    /\ result.kind = "Word"
    /\ \E i \in 1..Len(Consumed) : Consumed[i] \in NonAscii
    /\ current_peek_pos > EntryPos
    /\ current_peek_pos > Len(Consumed)
    /\ current_peek_pos \in Boundaries

====
